---- MODULE Spec2Model ----
(***************************************************************************)
(* Model of post_process_resample (PowerExamples.py): a single pass over   *)
(* a raw CSV stream log that copies the header, averages fixed-size        *)
(* windows ("stripes") of consecutive rows and appends MAX/MIN/AVE         *)
(* statistics of the averaged rows.                                        *)
(*                                                                         *)
(* The script runs under Python 3: "/" is true division and yields a       *)
(* float (IEEE-754 binary64, round to nearest even).  Numbers are          *)
(* therefore modelled as Python does them: ints exactly, floats as a sign, *)
(* a 53-bit significand (most significant bit first) and the exponent of   *)
(* the least significant bit.  Exponent range limits (overflow, subnormal) *)
(* are never approached by the values of the model and are not modelled.   *)
(***************************************************************************)
EXTENDS Integers, Sequences, FiniteSets, TLC

-----------------------------------------------------------------------------
(* Python numbers                                                          *)

Precision == 53

PyInt(n) == [ty |-> "int", n |-> n]
PyFloat(neg, man, exp) == [ty |-> "float", neg |-> neg, man |-> man, exp |-> exp]
PyStr(s) == [ty |-> "str", s |-> s]
(* the str whose characters are the decimal repr of the number v *)
Repr(v) == [ty |-> "repr", of |-> v]
FloatZero == PyFloat(FALSE, <<>>, 0)

Abs(n) == IF n < 0 THEN 0 - n ELSE n
SetMin(S) == CHOOSE m \in S : \A o \in S : m <= o
SetMax(S) == CHOOSE m \in S : \A o \in S : m >= o

(* binary digits of a natural number, most significant first, no leading 0 *)
RECURSIVE Bits(_)
Bits(n) == IF n = 0 THEN <<>> ELSE Append(Bits(n \div 2), n % 2)

Zeros(k) == [i \in 1..k |-> 0]

Strip(b) ==
  LET ones == {i \in 1..Len(b) : b[i] = 1}
  IN IF ones = {} THEN <<>> ELSE SubSeq(b, SetMin(ones), Len(b))

(* b + 1 on a fixed-width digit string; <<>> when every digit is 1 *)
Increment(b) ==
  LET zs == {i \in 1..Len(b) : b[i] = 0}
  IN IF zs = {} THEN <<>>
     ELSE LET k == SetMax(zs)
          IN [i \in 1..Len(b) |-> IF i < k THEN b[i] ELSE IF i = k THEN 1 ELSE 0]

(* the float nearest to (-1)^neg * b * 2^e (+ a nonzero tail below the     *)
(* last digit of b when sticky), ties to the even significand              *)
RoundNearestEven(neg, b, e, sticky) ==
  IF b = <<>> THEN FloatZero
  ELSE IF Len(b) <= Precision
  THEN PyFloat(neg, b \o Zeros(Precision - Len(b)), e - (Precision - Len(b)))
  ELSE LET head  == SubSeq(b, 1, Precision)
           guard == b[Precision + 1]
           tail  == sticky \/ \E i \in (Precision + 2)..Len(b) : b[i] = 1
           up    == guard = 1 /\ (tail \/ head[Precision] = 1)
           e2    == e + (Len(b) - Precision)
           inc   == Increment(head)
       IN IF ~up THEN PyFloat(neg, head, e2)
          ELSE IF inc = <<>> THEN PyFloat(neg, <<1>> \o Zeros(Precision - 1), e2 + 1)
          ELSE PyFloat(neg, inc, e2)

ToFloat(x) ==
  IF x.ty = "float" THEN x
  ELSE RoundNearestEven(x.n < 0, Bits(Abs(x.n)), 0, FALSE)

(* schoolbook long division of the digits lo..hi of b by the small natural *)
(* n, entered with remainder r: the quotient digits and the new remainder  *)
RECURSIVE LongDiv(_, _, _, _, _)
LongDiv(b, n, lo, hi, r) ==
  IF lo > hi THEN [q |-> <<>>, r |-> r]
  ELSE IF lo = hi
  THEN LET t == 2 * r + b[lo] IN [q |-> <<t \div n>>, r |-> t % n]
  ELSE LET mid   == (lo + hi) \div 2
           left  == LongDiv(b, n, lo, mid, r)
           rem   == left.r
           right == IF rem = 0 THEN LongDiv(b, n, mid + 1, hi, 0)
                               ELSE LongDiv(b, n, mid + 1, hi, rem)
       IN [q |-> left.q \o right.q, r |-> right.r]

(* x / n for an int or float x and a positive int n: the correctly rounded *)
(* quotient, as int.__truediv__ and float.__truediv__ give it              *)
PyTrueDiv(x, n) ==
  LET f == IF x.ty = "int" THEN [neg |-> x.n < 0, man |-> Bits(Abs(x.n)), exp |-> 0] ELSE x
      k == Precision + 2 + Len(Bits(n))
      d == LongDiv(f.man \o Zeros(k), n, 1, Len(f.man) + k, 0)
  IN IF f.man = <<>> THEN FloatZero
     ELSE RoundNearestEven(f.neg, Strip(d.q), f.exp - k, d.r # 0)

(* sum of the digits lo..hi of two digit strings of the same length, with  *)
(* the carry entering at hi: the sum digits and the carry leaving at lo    *)
RECURSIVE AddRange(_, _, _, _, _)
AddRange(a, b, lo, hi, carry) ==
  IF lo > hi THEN [s |-> <<>>, c |-> carry]
  ELSE IF lo = hi
  THEN LET t == a[lo] + b[lo] + carry IN [s |-> <<t % 2>>, c |-> t \div 2]
  ELSE LET mid   == (lo + hi) \div 2
           right == AddRange(a, b, mid + 1, hi, carry)
           left  == IF right.c = 1 THEN AddRange(a, b, lo, mid, 1)
                                   ELSE AddRange(a, b, lo, mid, 0)
       IN [s |-> left.s \o right.s, c |-> left.c]

BigAdd(a, b) ==
  LET r == AddRange(a, b, 1, Len(a), 0)
  IN IF r.c = 1 THEN <<1>> \o r.s ELSE r.s

(* a - b likewise, for a >= b, with the borrow entering at hi *)
RECURSIVE SubRange(_, _, _, _, _)
SubRange(a, b, lo, hi, borrow) ==
  IF lo > hi THEN [s |-> <<>>, c |-> borrow]
  ELSE IF lo = hi
  THEN LET t == a[lo] - b[lo] - borrow IN [s |-> <<t % 2>>, c |-> IF t < 0 THEN 1 ELSE 0]
  ELSE LET mid   == (lo + hi) \div 2
           right == SubRange(a, b, mid + 1, hi, borrow)
           left  == IF right.c = 1 THEN SubRange(a, b, lo, mid, 1)
                                   ELSE SubRange(a, b, lo, mid, 0)
       IN [s |-> left.s \o right.s, c |-> left.c]

BigSub(a, b) == SubRange(a, b, 1, Len(a), 0).s

BigLess(a, b) ==
  LET d == {i \in 1..Len(a) : a[i] # b[i]}
  IN d # {} /\ a[SetMin(d)] < b[SetMin(d)]

(* float + float *)
FloatAdd(x, y) ==
  IF x.man = <<>> THEN y
  ELSE IF y.man = <<>> THEN x
  ELSE LET e  == IF x.exp < y.exp THEN x.exp ELSE y.exp
           xa == x.man \o Zeros(x.exp - e)
           ya == y.man \o Zeros(y.exp - e)
           w  == IF Len(xa) > Len(ya) THEN Len(xa) ELSE Len(ya)
           xb == Zeros(w - Len(xa)) \o xa
           yb == Zeros(w - Len(ya)) \o ya
       IN IF x.neg = y.neg
          THEN RoundNearestEven(x.neg, BigAdd(xb, yb), e, FALSE)
          ELSE IF xb = yb THEN FloatZero
          ELSE IF BigLess(xb, yb)
          THEN RoundNearestEven(y.neg, Strip(BigSub(yb, xb)), e, FALSE)
          ELSE RoundNearestEven(x.neg, Strip(BigSub(xb, yb)), e, FALSE)

(* x + y as Python's "+" on int and float operands *)
PyAdd(x, y) ==
  IF x.ty = "int" /\ y.ty = "int" THEN PyInt(x.n + y.n)
  ELSE FloatAdd(ToFloat(x), ToFloat(y))

(* |x| < |y| for floats *)
MagLess(x, y) ==
  IF y.man = <<>> THEN FALSE
  ELSE IF x.man = <<>> THEN TRUE
  ELSE x.exp < y.exp \/ (x.exp = y.exp /\ BigLess(x.man, y.man))

FloatLess(x, y) ==
  IF x.neg /\ ~y.neg THEN TRUE
  ELSE IF ~x.neg /\ y.neg THEN FALSE
  ELSE IF x.neg THEN MagLess(y, x)
  ELSE MagLess(x, y)

(* x < y as Python's "<" on int and float operands *)
PyLess(x, y) ==
  IF x.ty = "int" /\ y.ty = "int" THEN x.n < y.n
  ELSE FloatLess(ToFloat(x), ToFloat(y))

-----------------------------------------------------------------------------
(* Text                                                                    *)

(* str(x): a str is itself, a number becomes its repr *)
Str(v) == IF v.ty \in {"str", "repr"} THEN v ELSE Repr(v)

(* int(t) succeeds exactly on the text of an integer literal *)
IsIntText(t) == t.ty = "repr" /\ t.of.ty = "int"
int(t) == t.of

(* A line of text is the sequence of its fields, as split(dilimiter) gives *)
(* them and dilimiter.join() puts them back; an empty line is one empty    *)
(* field.  Every input line ends with a newline.                           *)
BlankLine == <<PyStr("")>>

-----------------------------------------------------------------------------
(* Inputs                                                                  *)

MaxRows == 4
MaxResample == 3
MaxLongRows == 15
LongResample == {5, 7}

Header1 == <<PyStr("Time us"), PyStr("5V V"), PyStr("5V A")>>
Header2 == <<PyStr("us"), PyStr("mV"), PyStr("uA")>>

IntFields(ns) == [i \in 1..Len(ns) |-> Repr(PyInt(ns[i]))]

FieldsA     == IntFields(<<1, -5, 1000000, 0, 3, 7, -1, 2>>)
FieldsB     == IntFields(<<2, -7, 2000001, 0, 4, 7, 1, 5>>)
FieldsLong  == IntFields(<<1, -5, 1000000, 0, 3, 7, -1, 2, 9>>)
FieldsShort == IntFields(<<1, -5, 1000000, 0, 3, 7, -1>>)
FieldsText  == [FieldsA EXCEPT ![3] = PyStr("x")]
FieldsOne   == IntFields(<<1, 4, 0, 0, 0, 0, 0, 0>>)
FieldsZero  == IntFields(<<0, 23, 0, 0, 0, 0, 0, 0>>)

FieldSet == {FieldsA, FieldsB, FieldsLong, FieldsShort, FieldsText}
LongSeed == <<FieldsOne, FieldsZero, FieldsZero, FieldsZero, FieldsZero>>

(* the j-th data row carries the time stamp j *)
TimeStamp(j) == Repr(PyInt(j))
MakeFile(rows) == <<Header1, Header2>> \o [j \in 1..Len(rows) |-> <<TimeStamp(j)>> \o rows[j]]

SeqsUpTo(S, n) == UNION {[1..k -> S] : k \in 0..n}
Cycle(seed, d) == [j \in 1..d |-> seed[((j - 1) % Len(seed)) + 1]]

(* every file of up to MaxRows rows over FieldSet, and the files cut short *)
(* inside the header                                                       *)
SmallFiles == {MakeFile(rows) : rows \in SeqsUpTo(FieldSet, MaxRows)}
                \cup {<<>>, <<Header1>>}
(* long periodic files *)
LongFiles == {MakeFile(Cycle(LongSeed, d)) : d \in 0..MaxLongRows}

-----------------------------------------------------------------------------
(* post_process_resample                                                   *)

VARIABLES rawFile, resample_count, pos, headerLines, stripeCount,
          averaged_stripe_count, procData, maxData, minData, aveData,
          postFile, pc

vars == <<rawFile, resample_count, pos, headerLines, stripeCount,
          averaged_stripe_count, procData, maxData, minData, aveData,
          postFile, pc>>

number_of_columns == 9
Columns == 1..(number_of_columns - 1)

InitLocals ==
  /\ pos = 0
  /\ headerLines = 0
  /\ stripeCount = 0
  /\ averaged_stripe_count = 0
  /\ procData = [i \in 1..number_of_columns |-> PyInt(0)]
  /\ maxData = [i \in Columns |-> PyInt(0)]
  /\ minData = [i \in Columns |-> PyInt(999999)]
  /\ aveData = [i \in Columns |-> PyInt(0)]
  /\ postFile = <<>>
  /\ pc = "loop"

Init ==
  /\ \/ resample_count \in 1..MaxResample /\ rawFile \in SmallFiles
     \/ resample_count \in LongResample /\ rawFile \in LongFiles
  /\ InitLocals

fileLine == rawFile[pos + 1]
lineSections == fileLine

(* range(1, number_of_columns) indexes that the summing loop cannot convert *)
BadColumns(ls) == {i \in Columns : i + 1 > Len(ls) \/ ~IsIntText(ls[i + 1])}

(* Summed with the time point taken from the first line of the stripe only *)
Summed_FirstTime(ls, stop) ==
  [j \in 1..number_of_columns |->
     IF j = 1 THEN (IF stripeCount = 0 THEN ls[1] ELSE procData[1])
     ELSE IF j - 1 < stop THEN PyAdd(procData[j], int(ls[j]))
     ELSE procData[j]]

(* procData after the summing loop has handled the columns below stop *)
Summed(ls, stop) ==
  [j \in 1..number_of_columns |->
     IF j = 1 THEN ls[1]
     ELSE IF j - 1 < stop THEN PyAdd(procData[j], int(ls[j]))
     ELSE procData[j]]

(* the averaged stripe: column 0 is the time point, the others are divided *)
Divided(pd) ==
  [j \in 1..number_of_columns |->
     IF j = 1 THEN pd[1] ELSE PyTrueDiv(pd[j], resample_count)]

OutLine(pd) == [j \in 1..number_of_columns |-> Str(pd[j])]

(* TrackMax with the comparison turned round *)
TrackMax_Reversed(pd) ==
  [i \in Columns |-> IF PyLess(pd[i + 1], maxData[i]) THEN pd[i + 1] ELSE maxData[i]]

TrackMax(pd) ==
  [i \in Columns |-> IF PyLess(maxData[i], pd[i + 1]) THEN pd[i + 1] ELSE maxData[i]]
TrackMin(pd) ==
  [i \in Columns |-> IF PyLess(pd[i + 1], minData[i]) THEN pd[i + 1] ELSE minData[i]]
TrackAve(pd) ==
  [i \in Columns |-> PyAdd(aveData[i], pd[i + 1])]

(* lines 158-161 *)
CopyHeader ==
  /\ pc = "loop"
  /\ pos < Len(rawFile)
  /\ headerLines < 2
  /\ postFile' = postFile \o <<fileLine, BlankLine>>
  /\ headerLines' = headerLines + 1
  /\ pos' = pos + 1
  /\ UNCHANGED <<rawFile, resample_count, stripeCount, averaged_stripe_count,
                 procData, maxData, minData, aveData, pc>>

(* lines 164-173, the stripe is not complete yet *)
Accumulate ==
  /\ pc = "loop"
  /\ pos < Len(rawFile)
  /\ ~(headerLines < 2)
  /\ BadColumns(lineSections) = {}
  /\ stripeCount + 1 # resample_count
  /\ procData' = Summed(lineSections, number_of_columns)
  /\ stripeCount' = stripeCount + 1
  /\ pos' = pos + 1
  /\ UNCHANGED <<rawFile, resample_count, headerLines, averaged_stripe_count,
                 maxData, minData, aveData, postFile, pc>>

(* CompleteStripe without "stripeCount = 0" *)
CompleteStripe_KeepCount ==
  /\ pc = "loop"
  /\ pos < Len(rawFile)
  /\ ~(headerLines < 2)
  /\ BadColumns(lineSections) = {}
  /\ stripeCount + 1 = resample_count
  /\ LET pd == Divided(Summed(lineSections, number_of_columns))
     IN /\ postFile' = Append(postFile, OutLine(pd))
        /\ maxData' = TrackMax(pd)
        /\ minData' = TrackMin(pd)
        /\ aveData' = TrackAve(pd)
  /\ averaged_stripe_count' = averaged_stripe_count + 1
  /\ procData' = [i \in 1..number_of_columns |-> PyInt(0)]
  /\ stripeCount' = stripeCount + 1
  /\ pos' = pos + 1
  /\ UNCHANGED <<rawFile, resample_count, headerLines, pc>>

(* CompleteStripe without the reset of the accumulating buffer *)
CompleteStripe_CarryOver ==
  /\ pc = "loop"
  /\ pos < Len(rawFile)
  /\ ~(headerLines < 2)
  /\ BadColumns(lineSections) = {}
  /\ stripeCount + 1 = resample_count
  /\ LET pd == Divided(Summed(lineSections, number_of_columns))
     IN /\ postFile' = Append(postFile, OutLine(pd))
        /\ maxData' = TrackMax(pd)
        /\ minData' = TrackMin(pd)
        /\ aveData' = TrackAve(pd)
  /\ averaged_stripe_count' = averaged_stripe_count + 1
  /\ procData' = Summed(lineSections, number_of_columns)
  /\ stripeCount' = 0
  /\ pos' = pos + 1
  /\ UNCHANGED <<rawFile, resample_count, headerLines, pc>>

(* lines 164-197, the line completes a stripe *)
CompleteStripe ==
  /\ pc = "loop"
  /\ pos < Len(rawFile)
  /\ ~(headerLines < 2)
  /\ BadColumns(lineSections) = {}
  /\ stripeCount + 1 = resample_count
  /\ LET pd == Divided(Summed(lineSections, number_of_columns))
     IN /\ postFile' = Append(postFile, OutLine(pd))
        /\ maxData' = TrackMax(pd)
        /\ minData' = TrackMin(pd)
        /\ aveData' = TrackAve(pd)
  /\ averaged_stripe_count' = averaged_stripe_count + 1
  /\ procData' = [i \in 1..number_of_columns |-> PyInt(0)]
  /\ stripeCount' = 0
  /\ pos' = pos + 1
  /\ UNCHANGED <<rawFile, resample_count, headerLines, pc>>

(* lines 164-169: lineSections[i] or int() raises, the exception leaves    *)
(* the function and closes both files                                      *)
RaiseParseError ==
  /\ pc = "loop"
  /\ pos < Len(rawFile)
  /\ ~(headerLines < 2)
  /\ BadColumns(lineSections) # {}
  /\ LET i == SetMin(BadColumns(lineSections))
     IN /\ procData' = Summed(lineSections, i)
        /\ pc' = IF i + 1 > Len(lineSections) THEN "IndexError" ELSE "ValueError"
  /\ UNCHANGED <<rawFile, resample_count, pos, headerLines, stripeCount,
                 averaged_stripe_count, maxData, minData, aveData, postFile>>

StatLine(label, data) == <<PyStr(label)>> \o [i \in Columns |-> Str(data[i])]

(* WriteStatistics with the MIN line written before the MAX line *)
WriteStatistics_MinFirst ==
  /\ pc = "loop"
  /\ pos = Len(rawFile)
  /\ averaged_stripe_count # 0
  /\ LET ave == [i \in Columns |-> PyTrueDiv(aveData[i], averaged_stripe_count)]
     IN /\ aveData' = ave
        /\ postFile' = postFile \o <<BlankLine, BlankLine, <<PyStr("STATISTICS")>>,
                                     StatLine("MIN", minData),
                                     StatLine("MAX", maxData),
                                     StatLine("AVE", ave)>>
  /\ pc' = "done"
  /\ UNCHANGED <<rawFile, resample_count, pos, headerLines, stripeCount,
                 averaged_stripe_count, procData, maxData, minData>>

(* lines 200-207 *)
WriteStatistics ==
  /\ pc = "loop"
  /\ pos = Len(rawFile)
  /\ averaged_stripe_count # 0
  /\ LET ave == [i \in Columns |-> PyTrueDiv(aveData[i], averaged_stripe_count)]
     IN /\ aveData' = ave
        /\ postFile' = postFile \o <<BlankLine, BlankLine, <<PyStr("STATISTICS")>>,
                                     StatLine("MAX", maxData),
                                     StatLine("MIN", minData),
                                     StatLine("AVE", ave)>>
  /\ pc' = "done"
  /\ UNCHANGED <<rawFile, resample_count, pos, headerLines, stripeCount,
                 averaged_stripe_count, procData, maxData, minData>>

(* the division skipped instead of raising when no stripe was averaged *)
RaiseZeroDivisionError_Guarded ==
  /\ pc = "loop"
  /\ pos = Len(rawFile)
  /\ averaged_stripe_count = 0
  /\ postFile' = postFile \o <<BlankLine, BlankLine, <<PyStr("STATISTICS")>>,
                               StatLine("MAX", maxData),
                               StatLine("MIN", minData),
                               StatLine("AVE", aveData)>>
  /\ pc' = "done"
  /\ UNCHANGED <<rawFile, resample_count, pos, headerLines, stripeCount,
                 averaged_stripe_count, procData, maxData, minData, aveData>>

(* lines 200-201 with averaged_stripe_count = 0 *)
RaiseZeroDivisionError ==
  /\ pc = "loop"
  /\ pos = Len(rawFile)
  /\ averaged_stripe_count = 0
  /\ pc' = "ZeroDivisionError"
  /\ UNCHANGED <<rawFile, resample_count, pos, headerLines, stripeCount,
                 averaged_stripe_count, procData, maxData, minData, aveData,
                 postFile>>

Next ==
  \/ CopyHeader
  \/ Accumulate
  \/ CompleteStripe
  \/ RaiseParseError
  \/ WriteStatistics
  \/ RaiseZeroDivisionError

Spec == Init /\ [][Next]_vars

-----------------------------------------------------------------------------
(* What the properties talk about                                          *)

(* float * int, correctly rounded: how "value * resample_count" evaluates *)
RECURSIVE MulRange(_, _, _, _, _)
MulRange(a, n, lo, hi, carry) ==
  IF lo > hi THEN [s |-> <<>>, c |-> carry]
  ELSE IF lo = hi
  THEN LET t == a[lo] * n + carry IN [s |-> <<t % 2>>, c |-> t \div 2]
  ELSE LET mid   == (lo + hi) \div 2
           right == MulRange(a, n, mid + 1, hi, carry)
           cr    == right.c
           left  == IF cr = 0 THEN MulRange(a, n, lo, mid, 0)
                              ELSE MulRange(a, n, lo, mid, cr)
       IN [s |-> left.s \o right.s, c |-> left.c]

PyMul(x, n) ==
  LET f == ToFloat(x)
      r == MulRange(f.man, n, 1, Len(f.man), 0)
  IN RoundNearestEven(f.neg, Strip(Bits(r.c) \o r.s), f.exp, FALSE)

(* numeric x == y and x <= y on int and float operands *)
PyEq(x, y) == ~PyLess(x, y) /\ ~PyLess(y, x)
PyLeq(x, y) == ~PyLess(y, x)

(* the data section: every line after the two header lines of line 158 *)
HeaderCount == 2
DataRows == SubSeq(rawFile, HeaderCount + 1, Len(rawFile))
D == Len(DataRows)
Consumed == IF pos > HeaderCount THEN pos - HeaderCount ELSE 0

(* a data row as the format defines it: time stamp and 8 integer fields *)
WellFormed(l) ==
  /\ Len(l) = number_of_columns
  /\ \A i \in 2..number_of_columns : IsIntText(l[i])

(* the kinds of output lines *)
IsBlank(l) == l = BlankLine
IsMarker(l) == l = <<PyStr("STATISTICS")>>
IsStat(l, label) ==
  /\ Len(l) = number_of_columns
  /\ l[1] = PyStr(label)
  /\ \A i \in 2..number_of_columns : l[i].ty = "repr"
IsRecord(l) ==
  /\ Len(l) = number_of_columns
  /\ l[1] \notin {PyStr("MAX"), PyStr("MIN"), PyStr("AVE")}
  /\ \A i \in 2..number_of_columns : l[i].ty = "repr" /\ l[i].of.ty = "float"
Kind(l) ==
  IF IsBlank(l) THEN "blank"
  ELSE IF IsMarker(l) THEN "STATISTICS"
  ELSE IF IsStat(l, "MAX") THEN "MAX"
  ELSE IF IsStat(l, "MIN") THEN "MIN"
  ELSE IF IsStat(l, "AVE") THEN "AVE"
  ELSE IF IsRecord(l) THEN "record"
  ELSE "header"

Records == SelectSeq(postFile, IsRecord)
StatLines(label) == SelectSeq(postFile, LAMBDA l : IsStat(l, label))
Value(rec, i) == rec[i + 1].of
HasStatistics == \E k \in 1..Len(postFile) : Kind(postFile[k]) \in {"STATISTICS", "MAX", "MIN", "AVE"}

(* sum of channel i over the rows lo..hi of the data section *)
RECURSIVE RowSum(_, _, _)
RowSum(i, lo, hi) ==
  IF lo > hi THEN 0 ELSE DataRows[hi][i + 1].of.n + RowSum(i, lo, hi - 1)
WindowSum(k, i) == RowSum(i, (k - 1) * resample_count + 1, k * resample_count)

Ended == pc # "loop"
Complete == pc \in {"done", "ZeroDivisionError"}

-----------------------------------------------------------------------------
(* Properties                                                              *)

(* C1: once all input is consumed, the number of averaged rows written and *)
(* counted (averaged_stripe_count) is floor(D / resample_count); the       *)
(* D mod resample_count trailing rows sit in the unfinished stripe, which  *)
(* is neither written nor counted.                                         *)
C1_WindowCount ==
  Complete =>
    /\ averaged_stripe_count = D \div resample_count
    /\ Len(Records) = D \div resample_count
    /\ stripeCount = D % resample_count
    /\ \A i \in Columns :
         procData[i + 1] = PyInt(RowSum(i, D - (D % resample_count) + 1, D))
C1_Witness ==
  /\ pc = "done"
  /\ D % resample_count # 0
  /\ D \div resample_count >= 2

(* C2: the first H lines of the output are exactly the first H lines of    *)
(* the input, written before any numeric processing.                       *)
C2_HeaderPassthrough ==
  \A k \in 1..headerLines : k <= Len(postFile) /\ postFile[k] = rawFile[k]

(* C3 as stated: for every averaged row k and channel i, the written value *)
(* times resample_count equals the sum of channel i over the raw rows      *)
(* (k-1)*resample_count+1 .. k*resample_count.                             *)
C3_ProductEqualsSum ==
  \A k \in 1..Len(Records) : \A i \in Columns :
    PyEq(PyMul(Value(Records[k], i), resample_count), PyInt(WindowSum(k, i)))

(* C3 amended: the written value is the float quotient of that window sum  *)
(* by resample_count (nothing carried over from another window), and       *)
(* value * resample_count equals the sum whenever resample_count divides   *)
(* the sum.                                                                *)
C3_SumAverage ==
  \A k \in 1..Len(Records) : \A i \in Columns :
    LET sum == WindowSum(k, i)
        v   == Value(Records[k], i)
    IN /\ v = PyTrueDiv(PyInt(sum), resample_count)
       /\ sum % resample_count = 0 =>
            /\ v = ToFloat(PyInt(sum \div resample_count))
            /\ PyEq(PyMul(v, resample_count), PyInt(sum))
C3_Witness ==
  /\ Len(Records) >= 2
  /\ resample_count >= 2
  /\ \E i \in Columns : WindowSum(2, i) % resample_count # 0
  /\ \E i \in Columns : WindowSum(2, i) % resample_count = 0 /\ WindowSum(2, i) # 0

(* C4: in every state each channel's maxData is >= and its minData is <=   *)
(* every averaged value written so far for that channel.                   *)
C4_MinMaxBounds ==
  \A k \in 1..Len(Records) : \A i \in Columns :
    /\ PyLeq(Value(Records[k], i), maxData[i])
    /\ PyLeq(minData[i], Value(Records[k], i))
C4_Witness ==
  /\ Len(Records) >= 2
  /\ \E i \in Columns : PyLess(Value(Records[2], i), PyInt(0))
  /\ \E i \in Columns : PyLess(PyInt(999999), Value(Records[2], i))

(* C5: when at least one averaged row was written, the value on the AVE    *)
(* line lies between the values on the MIN and MAX lines, inclusive.       *)
C5_MeanBracketing ==
  pc = "done" =>
    \A i \in Columns :
      /\ PyLeq(Value(StatLines("MIN")[1], i), Value(StatLines("AVE")[1], i))
      /\ PyLeq(Value(StatLines("AVE")[1], i), Value(StatLines("MAX")[1], i))

(* C6: with fewer data rows than resample_count the run ends in            *)
(* ZeroDivisionError and no STATISTICS, MAX, MIN or AVE line is written.   *)
C6_ZeroWindowFailure ==
  D < resample_count =>
    /\ pc # "done"
    /\ ~HasStatistics
    /\ (Ended /\ pos = Len(rawFile)) => pc = "ZeroDivisionError"
C6_Witness ==
  /\ pc = "ZeroDivisionError"
  /\ D >= 1
  /\ stripeCount = D

(* C7: a data line that does not have exactly 9 fields, or has a           *)
(* non-integer data field, ends the run in an error at that line: it is    *)
(* never consumed, and no statistics are written.                          *)
C7_MalformedRowFails ==
  /\ \A k \in 1..Consumed : WellFormed(DataRows[k])
  /\ pc \in {"IndexError", "ValueError"} => ~HasStatistics

(* C8: leaving blank lines aside, the output is the header lines, then the *)
(* averaged rows in input order, then (only once the run has consumed all  *)
(* input) one STATISTICS, one MAX, one MIN and one AVE line of 8 values,   *)
(* the STATISTICS line preceded by a blank line and nothing after AVE.     *)
Rank(l) ==
  CASE Kind(l) = "header" -> 0
    [] Kind(l) = "record" -> 1
    [] Kind(l) = "STATISTICS" -> 2
    [] Kind(l) = "MAX" -> 3
    [] Kind(l) = "MIN" -> 4
    [] Kind(l) = "AVE" -> 5
NonBlank == SelectSeq(postFile, LAMBDA l : ~IsBlank(l))
Count(kind) == Cardinality({k \in 1..Len(postFile) : Kind(postFile[k]) = kind})
C9_ExtremesAttained ==
  pc = "done" =>
    \A i \in Columns :
      /\ \E k \in 1..Len(Records) :
           PyEq(Value(StatLines("MAX")[1], i), Value(Records[k], i))
      /\ \E k \in 1..Len(Records) :
           PyEq(Value(StatLines("MIN")[1], i), Value(Records[k], i))
      /\ \A k \in 1..Len(Records) :
           /\ PyLeq(Value(Records[k], i), Value(StatLines("MAX")[1], i))
           /\ PyLeq(Value(StatLines("MIN")[1], i), Value(Records[k], i))

(* C10: the time stamp of the k-th averaged row is, verbatim, the time     *)
(* stamp field of raw row k * resample_count, the last row of its window.  *)
C10_WindowTimestamp ==
  \A k \in 1..Len(Records) : Records[k][1] = DataRows[k * resample_count][1]
C10_Witness ==
  /\ Len(Records) >= 2
  /\ resample_count >= 2
  /\ Consumed > 2 * resample_count

====
